---- MODULE Spec2Model ----
(***************************************************************************)
(* Model of build.rs of qwerty-mlir-sys: the build script that scans the   *)
(* installed static archives, loads mlir-deps.tsv, topologically sorts it  *)
(* and prints the cargo link directives.                                   *)
(*                                                                         *)
(* Strings are sequences of one-character strings, so that starts_with,    *)
(* strip_prefix and strip_suffix are computed as the code computes them.   *)
(* A path is kept whole, as a one-element sequence.                        *)
(***************************************************************************)
EXTENDS Naturals, Sequences, FiniteSets, TLC

VARIABLES
  pc,                 \* where the build script is
  include_entries,    \* read_dir(include_dir), once read
  bin_entries,        \* read_dir(bin_dir), once read
  lib_dir_entries,    \* read_dir(lib_dir), once read
  llvm_libdir_entries,\* read_dir(llvm-config --libdir), once read
  manifest,           \* lines of mlir-deps.tsv, each a sequence of tab-separated fields
  static_lib_names,   \* BuiltQwertyMlir.static_lib_names
  mlir_deps_graph,    \* BuiltQwertyMlir.mlir_deps_graph
  mlir_lib_names,     \* run_bindgen's mlir_lib_names
  sorted,             \* what toposort returned to run_bindgen
  out,                \* the directives printed on stdout, in order
  diagnostic,         \* the panic or error message, NoDiagnostic while there is none
  results,            \* the outcomes of the toposort calls made so far
  name,               \* parse_archive_name's argument
  parsed              \* parse_archive_name's result

vars == <<pc, include_entries, bin_entries, lib_dir_entries, llvm_libdir_entries,
          manifest, static_lib_names, mlir_deps_graph, mlir_lib_names, sorted,
          out, diagnostic, results, name, parsed>>

---------------------------------------------------------------------------
(* Bounds *)

\* longest file name parse_archive_name is tried on
MaxNameLen == 5
\* longest library id formatted as "lib" + id + ".a"
MaxIdLen == 2
\* most lines of mlir-deps.tsv in a build
MaxLines == 3
\* most lines of a manifest handed to the loader and toposort alone
TopoMaxLines == 3
\* most tab-separated fields of such a line
TopoMaxFields == 3
\* how many times toposort is run on one graph
NumRuns == 2

---------------------------------------------------------------------------
(* Strings *)

\* Option<T>: None, or Some(x)
None == <<>>
Some(x) == <<x>>

RECURSIVE SeqsUpTo(_, _)
\* every sequence over S of length at most n
SeqsUpTo(S, n) ==
  IF n = 0 THEN {<<>>}
  ELSE LET shorter == SeqsUpTo(S, n - 1)
       IN  shorter \cup {Append(s, c) : s \in {t \in shorter : Len(t) = n - 1}, c \in S}

starts_with(s, prefix) ==
  /\ Len(prefix) <= Len(s)
  /\ SubSeq(s, 1, Len(prefix)) = prefix

ends_with(s, suffix) ==
  /\ Len(suffix) <= Len(s)
  /\ SubSeq(s, Len(s) - Len(suffix) + 1, Len(s)) = suffix

strip_prefix(s, prefix) ==
  IF starts_with(s, prefix) THEN Some(SubSeq(s, Len(prefix) + 1, Len(s))) ELSE None

strip_suffix(s, suffix) ==
  IF ends_with(s, suffix) THEN Some(SubSeq(s, 1, Len(s) - Len(suffix))) ELSE None

RECURSIVE trim_start_matches(_, _)
trim_start_matches(s, pat) ==
  IF starts_with(s, pat) THEN trim_start_matches(SubSeq(s, Len(pat) + 1, Len(s)), pat)
  ELSE s

LibPrefix == <<"l", "i", "b">>
ArchiveSuffix == <<".", "a">>

\* a parser that strips "lib" and returns the rest, suffix and all
parse_archive_name_keep_suffix(n) ==
  strip_prefix(n, LibPrefix)

parse_archive_name(n) ==
  LET stripped == strip_prefix(n, LibPrefix)
  IN  IF stripped # None THEN strip_suffix(stripped[1], ArchiveSuffix) ELSE None

\* format!("lib{id}.a")
format_archive_name(id) == LibPrefix \o id \o ArchiveSuffix

---------------------------------------------------------------------------
(* Names *)

MLIR == <<"M", "L", "I", "R">>
CAPI == <<"C", "A", "P", "I">>
Qwerty == <<"Q", "w", "e", "r", "t", "y">>
QCirc == <<"Q", "C", "i", "r", "c">>
CCirc == <<"C", "C", "i", "r", "c">>
Utils == <<"U", "t", "i", "l", "s">>
qwutil == <<"q", "w", "u", "t", "i", "l">>
tweedledum == <<"t", "w", "e", "e", "d", "l", "e", "d", "u", "m">>

\* the scans with libqwutil and libtweedledum coming before the MLIR groups
ManualPrefixesSwapped ==
  << LibPrefix \o qwutil,
     LibPrefix \o tweedledum,
     LibPrefix \o MLIR \o CAPI \o Qwerty,
     LibPrefix \o MLIR \o Qwerty,
     LibPrefix \o MLIR \o CAPI \o Utils,
     LibPrefix \o MLIR \o CAPI \o QCirc,
     LibPrefix \o MLIR \o CAPI \o CCirc,
     LibPrefix \o MLIR \o QCirc,
     LibPrefix \o MLIR \o CCirc >>

\* the prefixes build_qwerty_mlir scans lib_dir for, in the order it scans them
ManualPrefixes ==
  << LibPrefix \o MLIR \o CAPI \o Qwerty,
     LibPrefix \o MLIR \o Qwerty,
     LibPrefix \o qwutil,
     LibPrefix \o tweedledum,
     LibPrefix \o MLIR \o CAPI \o Utils,
     LibPrefix \o MLIR \o CAPI \o QCirc,
     LibPrefix \o MLIR \o CAPI \o CCirc,
     LibPrefix \o MLIR \o QCirc,
     LibPrefix \o MLIR \o CCirc >>

\* the prefix run_bindgen scans llvm-config's libdir for
UmbrellaPrefix == LibPrefix \o MLIR

\* format!("{LLVM_MAJOR_VERSION}.")
VersionPrefix == <<"2", "0", ".">>

\* paths, kept whole
RerunIfChanged == << <<"../CMakeLists.txt">>, <<"../qwerty_mlir">>, <<"../qwerty_util">>,
                     <<"../tweedledum">> >>
IncludeDir == <<"$install/include">>
LibDir == <<"$install/lib">>
BinDir == <<"$install/bin">>
LlvmLibDir == <<"$llvm/lib">>
ManifestFile == <<"mlir-deps.tsv">>
WrapperH == <<"wrapper.h">>

---------------------------------------------------------------------------
(* What the build may find on disk and be told by llvm-config *)

MLIRA == MLIR \o <<"A">>
MLIRQwerty == MLIR \o Qwerty

\* an install tree's lib directory with one archive for each scanned prefix
LibDirBase ==
  {format_archive_name(SubSeq(ManualPrefixes[i], 4, Len(ManualPrefixes[i]))) :
     i \in DOMAIN ManualPrefixes} \cup {ManifestFile}

libMLIRQwertyX_a == format_archive_name(MLIR \o Qwerty \o <<"X">>)
libqwutil_a == format_archive_name(qwutil)
libqwutil_so == LibPrefix \o qwutil \o <<".", "s", "o">>

\* the whole tree, the tree with a second archive in one group and a shared
\* object in place of the archive of another, the tree with one file missing
LibDirChoices ==
  {LibDirBase, (LibDirBase \ {libqwutil_a}) \cup {libqwutil_so, libMLIRQwertyX_a}}
    \cup {LibDirBase \ {f} : f \in LibDirBase}

libMLIRA_a == format_archive_name(MLIRA)
libMLIRQwerty_a == format_archive_name(MLIRQwerty)
libMLIRB_so == LibPrefix \o MLIR \o <<"B", ".", "s", "o">>
libLLVMCore_a == format_archive_name(<<"L", "L", "V", "M", "C", "o", "r", "e">>)

LlvmLibDirChoices ==
  { {}, {libLLVMCore_a}, {libMLIRA_a}, {libMLIRB_so},
    {libMLIRA_a, libMLIRQwerty_a, libLLVMCore_a} }

\* the fields a line of mlir-deps.tsv is made of in a build: two library
\* names and one archive file name
ManifestFields == {MLIRA, MLIRQwerty, libMLIRA_a}

\* a line: a first field alone, with a trailing tab, or with one successor
ManifestLineChoices ==
  { <<MLIRQwerty>>, <<libMLIRA_a, <<>> >>,
    <<MLIRA, libMLIRA_a>>, <<libMLIRA_a, MLIRQwerty>>, <<MLIRQwerty, MLIRA>> }

ManifestChoices == SeqsUpTo(ManifestLineChoices, MaxLines)

\* llvm-config --version
LlvmVersions == { <<"2", "0", ".", "1", ".", "8">>, <<"2", "0", "0", ".", "1">> }

\* llvm-config --libnames, split at spaces
LlvmLibnames == { << libLLVMCore_a >> }

\* llvm-config --system-libs, split at spaces
LlvmSystemLibs ==
  { << <<"-", "l", "z">>, <<"/", "u", "/", "l", "i", "b", "z", "3", ".", "s", "o">> >> }

\* the target the script is compiled for
Targets == {"msvc", "macos", "linux"}

---------------------------------------------------------------------------
(* lib_names_starting_with *)

RECURSIVE Perms(_)
\* every order a directory's entries can be read in
Perms(S) ==
  IF S = {} THEN {<<>>}
  ELSE UNION {{<<x>> \o p : p \in Perms(S \ {x})} : x \in S}

\* the filter_map over read_dir: the entries whose name starts with prefix
lib_paths(entries, prefix) == {f \in entries : starts_with(f, prefix)}

\* a scanner that panics at nothing
never_panics(entries, prefix) == FALSE

\* lib_paths.is_empty(): the scan panics
scan_panics(entries, prefix) == lib_paths(entries, prefix) = {}

\* what a call can return: the matches, in the order read_dir gave them
lib_names_starting_with(entries, prefix) == Perms(lib_paths(entries, prefix))

RECURSIVE scan_groups(_, _, _)
\* the nine calls of build_qwerty_mlir, appended in order: every Vec they can build
scan_groups(entries, prefixes, i) ==
  IF i > Len(prefixes) THEN {<<>>}
  ELSE {first \o rest : first \in lib_names_starting_with(entries, prefixes[i]),
                        rest \in scan_groups(entries, prefixes, i + 1)}

\* the first prefix whose scan panics, 0 when none does
first_missing(entries, prefixes) ==
  LET missing == {i \in DOMAIN prefixes : scan_panics(entries, prefixes[i])}
  IN  IF missing = {} THEN 0 ELSE CHOOSE i \in missing : \A j \in missing : i <= j

---------------------------------------------------------------------------
(* The manifest loader *)

IsBlank(field) == field = <<>>

RECURSIVE trim_start(_)
trim_start(fields) ==
  IF fields # <<>> /\ IsBlank(Head(fields)) THEN trim_start(Tail(fields)) ELSE fields

RECURSIVE trim_end(_)
trim_end(fields) ==
  IF fields # <<>> /\ IsBlank(fields[Len(fields)])
  THEN trim_end(SubSeq(fields, 1, Len(fields) - 1)) ELSE fields

\* line.trim().split('\t') of the line whose tab-separated fields are `fields`:
\* trim takes the leading and trailing tabs away, and splitting the empty
\* string gives one empty column
trim_split(fields) ==
  LET trimmed == trim_end(trim_start(fields))
  IN  IF trimmed = <<>> THEN << <<>> >> ELSE trimmed

\* HashMap::insert
insert(graph, key, value) ==
  [k \in DOMAIN graph \cup {key} |-> IF k = key THEN value ELSE graph[k]]

EmptyGraph == [k \in {} |-> <<>>]

RECURSIVE load_manifest(_, _)
\* the loop over the lines of mlir-deps.tsv, from the graph built so far
load_manifest(graph, lines) ==
  IF lines = <<>> THEN graph
  ELSE LET cols == trim_split(Head(lines))
           depender == Head(cols)
       IN  load_manifest(insert(graph, depender, Tail(cols)), Tail(lines))

---------------------------------------------------------------------------
(* toposort *)

Range(seq) == {seq[i] : i \in DOMAIN seq}

\* the keys vertex_indegrees ends up with
Vertices(graph) == DOMAIN graph \cup UNION {Range(graph[d]) : d \in DOMAIN graph}

\* the first loop: 0 for a depender, plus one for each time a vertex is listed
\* as a dependee
vertex_indegrees(graph) ==
  [v \in Vertices(graph) |->
     Cardinality({e \in UNION {{<<d, i>> : i \in DOMAIN graph[d]} : d \in DOMAIN graph} :
                    graph[e[1]][e[2]] = v})]

\* the orders the second loop can push the zero-indegree vertices in: it
\* iterates a HashMap
seed_orders(graph) ==
  LET indegrees == vertex_indegrees(graph)
  IN  Perms({v \in DOMAIN indegrees : indegrees[v] = 0})

RECURSIVE relax(_, _)
\* the inner loop over the dependees of the vertex just sorted
relax(dependees, st) ==
  IF dependees = <<>> THEN st
  ELSE LET dependee == Head(dependees)
           indegree == st.indegrees[dependee] - 1
           zero == indegree = 0
       IN  relax(Tail(dependees),
                 [st EXCEPT !.indegrees[dependee] = indegree,
                            !.queue = IF zero THEN Append(@, dependee) ELSE @,
                            !.enqueued = IF zero THEN Append(@, dependee) ELSE @])

\* graph[libname] of a vertex that is no key of the graph
index_panics(graph, libname) == libname \notin DOMAIN graph

RECURSIVE kahn(_, _)
\* the while loop, from the state st; ends when the queue is empty or when
\* graph[libname] panics
kahn(graph, st) ==
  IF st.queue = <<>> THEN st
  ELSE LET libname == Head(st.queue)
           popped == [st EXCEPT !.queue = Tail(@), !.sorted = Append(@, libname)]
       IN  IF index_panics(graph, libname) THEN [popped EXCEPT !.panicked = TRUE]
           ELSE kahn(graph, relax(graph[libname], popped))

\* toposort(graph) when the zero-indegree vertices are pushed in the order
\* seeds. enqueued lists every vertex ever pushed on the queue.
toposort(graph, seeds) ==
  LET st == kahn(graph, [indegrees |-> vertex_indegrees(graph), queue |-> seeds,
                         enqueued |-> seeds, sorted |-> <<>>, panicked |-> FALSE])
  IN  [panicked |-> st.panicked, sorted |-> st.sorted, enqueued |-> st.enqueued]

---------------------------------------------------------------------------
(* Directives and diagnostics *)

\* a line printed on stdout: the source line of the println!, the cargo key,
\* and the value
Directive(line, kind, arg) == [line |-> line, kind |-> kind, arg |-> arg]

NoDiagnostic == [kind |-> "none", line |-> 0, dir |-> <<>>, text |-> <<>>]
Panic(line, dir, text) == [kind |-> "panic", line |-> line, dir |-> dir, text |-> text]
Err(line, text) == [kind |-> "error", line |-> line, dir |-> <<>>, text |-> text]

RECURSIVE FlatMap(_, _)
\* the directives Op(x) of each x of seq, in order
FlatMap(Op(_), seq) ==
  IF seq = <<>> THEN <<>> ELSE Op(Head(seq)) \o FlatMap(Op, Tail(seq))

\* the directory the panic names: include_dir.display(), whichever is empty
empty_dir_named(nonempty_dir) == IncludeDir

\* lines 26-36 of run
run_directives ==
  [i \in DOMAIN RerunIfChanged |-> Directive(28, "rerun-if-changed", RerunIfChanged[i])]
    \o << Directive(34, "metadata=bin_dir", BinDir) >>

static_directive(line, lib) == << Directive(line, "rustc-link-lib=static", lib) >>

\* the body of the loop over static_lib_names
manual_directive(qwerty_lib_name) ==
  LET parsed_name == parse_archive_name(qwerty_lib_name)
  IN  IF parsed_name # None THEN static_directive(159, parsed_name[1]) ELSE <<>>

\* the link directives before the search path they need
manual_directives_search_last(names) ==
  FlatMap(manual_directive, names) \o << Directive(154, "rustc-link-search", LibDir) >>

\* lines 153-161 of run_bindgen
manual_directives(names) ==
  << Directive(154, "rustc-link-search", LibDir) >> \o FlatMap(manual_directive, names)

\* the HashSet collected from the scan of llvm-config's libdir
collect_mlir_lib_names(paths) ==
  {parse_archive_name(f)[1] : f \in {g \in paths : parse_archive_name(g) # None}}

\* a loop that prints every vertex toposort returned
manifest_directives_unfiltered(order, names) ==
  LET body(mlir_lib_name) == static_directive(171, mlir_lib_name)
  IN  FlatMap(body, order)

\* a loop that leaves out what the manual part has printed already
manifest_directives_dedup(order, names) ==
  LET printed == {out[i].arg : i \in {j \in DOMAIN out : out[j].line = 159}}
      body(mlir_lib_name) ==
        IF mlir_lib_name \in names /\ mlir_lib_name \notin printed
        THEN static_directive(171, mlir_lib_name) ELSE <<>>
  IN  FlatMap(body, order)

\* the loop over toposort's result, lines 169-173
manifest_directives(order, names) ==
  LET body(mlir_lib_name) ==
        IF mlir_lib_name \in names THEN static_directive(171, mlir_lib_name) ELSE <<>>
  IN  FlatMap(body, order)

\* lines 175-179
libnames_directives(libnames) ==
  LET body(n) ==
        LET parsed_name == parse_archive_name(n)
        IN  IF parsed_name # None
            THEN << Directive(177, "rustc-link-lib", parsed_name[1]) >> ELSE <<>>
  IN  FlatMap(body, libnames)

\* the last place c occurs in s, 0 when it does not
LastIndex(s, c) ==
  LET at == {i \in DOMAIN s : s[i] = c}
  IN  IF at = {} THEN 0 ELSE CHOOSE i \in at : \A j \in at : j <= i

\* Path::parent of an absolute path
parent(path) ==
  LET slash == LastIndex(path, "/")
  IN  IF slash <= 1 THEN <<"/">> ELSE SubSeq(path, 1, slash - 1)

\* Path::file_stem: the file name up to its last dot
file_stem(path) ==
  LET file == SubSeq(path, LastIndex(path, "/") + 1, Len(path))
      dot == LastIndex(file, ".")
  IN  IF dot <= 1 THEN file ELSE SubSeq(file, 1, dot - 1)

\* lines 181-203
system_libs_directives(flags) ==
  LET body(f) ==
        LET flag == trim_start_matches(f, <<"-", "l">>)
        IN  IF starts_with(flag, <<"/">>)
            THEN << Directive(189, "rustc-link-search", parent(flag)),
                    Directive(193, "rustc-link-lib",
                              trim_start_matches(file_stem(flag), LibPrefix)) >>
            ELSE << Directive(201, "rustc-link-lib", flag) >>
  IN  FlatMap(body, flags)

get_system_libcpp(target) ==
  IF target = "msvc" THEN None
  ELSE IF target = "macos" THEN Some(<<"c", "+", "+">>)
  ELSE Some(<<"s", "t", "d", "c", "+", "+">>)

\* lines 205-207
libcpp_directives(target) ==
  LET libcpp == get_system_libcpp(target)
  IN  IF libcpp # None THEN << Directive(206, "rustc-link-lib", libcpp[1]) >> ELSE <<>>

---------------------------------------------------------------------------
(* The build script *)

Unread == {}

Init ==
  /\ pc = "start"
  /\ include_entries = Unread
  /\ bin_entries = Unread
  /\ lib_dir_entries = Unread
  /\ llvm_libdir_entries = Unread
  /\ manifest = <<>>
  /\ static_lib_names = <<>>
  /\ mlir_deps_graph = EmptyGraph
  /\ mlir_lib_names = {}
  /\ sorted = <<>>
  /\ out = <<>>
  /\ diagnostic = NoDiagnostic
  /\ results = <<>>
  /\ name = <<>>
  /\ parsed = None

\* build_qwerty_mlir, lines 72-84: the two directories that must not be empty
BuildCheckDirs ==
  /\ pc = "start"
  /\ \E inc \in {{}, {<<"mlir-c">>}}, bin \in {{}, {<<"qwerty-opt">>}} :
       /\ include_entries' = inc
       /\ bin_entries' = bin
       /\ IF inc = {}
          THEN /\ pc' = "panicked"
               /\ diagnostic' = Panic(78, empty_dir_named(IncludeDir), <<"header files">>)
          ELSE IF bin = {}
          THEN /\ pc' = "panicked"
               /\ diagnostic' = Panic(78, empty_dir_named(BinDir), <<"debugging executables">>)
          ELSE /\ pc' = "scan"
               /\ UNCHANGED diagnostic
  /\ UNCHANGED <<lib_dir_entries, llvm_libdir_entries, manifest, static_lib_names,
                 mlir_deps_graph, mlir_lib_names, sorted, out, results, name, parsed>>

\* build_qwerty_mlir, lines 106-114: the nine scans of lib_dir
BuildScanGroups ==
  /\ pc = "scan"
  /\ \E entries \in LibDirChoices :
       /\ lib_dir_entries' = entries
       /\ LET missing == first_missing(entries, ManualPrefixes)
          IN  IF missing # 0
              THEN /\ pc' = "panicked"
                   /\ diagnostic' = Panic(238, LibDir, ManualPrefixes[missing])
                   /\ UNCHANGED static_lib_names
              ELSE /\ pc' = "load"
                   /\ static_lib_names' \in scan_groups(entries, ManualPrefixes, 1)
                   /\ UNCHANGED diagnostic
  /\ UNCHANGED <<include_entries, bin_entries, llvm_libdir_entries, manifest,
                 mlir_deps_graph, mlir_lib_names, sorted, out, results, name, parsed>>

\* build_qwerty_mlir, lines 118-129: mlir-deps.tsv is opened and read
BuildLoadManifest ==
  /\ pc = "load"
  /\ IF ManifestFile \notin lib_dir_entries
     THEN /\ pc' = "panicked"
          /\ diagnostic' = Panic(119, LibDir, ManifestFile)
          /\ UNCHANGED <<manifest, mlir_deps_graph>>
     ELSE /\ pc' = "run"
          /\ manifest' \in ManifestChoices
          /\ mlir_deps_graph' = load_manifest(EmptyGraph, manifest')
          /\ UNCHANGED diagnostic
  /\ UNCHANGED <<include_entries, bin_entries, lib_dir_entries, llvm_libdir_entries,
                 static_lib_names, mlir_lib_names, sorted, out, results, name, parsed>>

\* run, lines 26-36
RunPrint ==
  /\ pc = "run"
  /\ out' = out \o run_directives
  /\ pc' = "version"
  /\ UNCHANGED <<include_entries, bin_entries, lib_dir_entries, llvm_libdir_entries,
                 manifest, static_lib_names, mlir_deps_graph, mlir_lib_names, sorted,
                 diagnostic, results, name, parsed>>

\* run_bindgen, lines 142-151
CheckVersion ==
  /\ pc = "version"
  /\ \E version \in LlvmVersions :
       IF ~ starts_with(version, VersionPrefix)
       THEN /\ pc' = "error"
            /\ diagnostic' = Err(145, version)
            /\ UNCHANGED out
       ELSE /\ pc' = "emit_manual"
            /\ out' = Append(out, Directive(151, "rerun-if-changed", WrapperH))
            /\ UNCHANGED diagnostic
  /\ UNCHANGED <<include_entries, bin_entries, lib_dir_entries, llvm_libdir_entries,
                 manifest, static_lib_names, mlir_deps_graph, mlir_lib_names, sorted,
                 results, name, parsed>>

\* run_bindgen, lines 153-161
EmitManual ==
  /\ pc = "emit_manual"
  /\ out' = out \o manual_directives(static_lib_names)
  /\ pc' = "scan_llvm"
  /\ UNCHANGED <<include_entries, bin_entries, lib_dir_entries, llvm_libdir_entries,
                 manifest, static_lib_names, mlir_deps_graph, mlir_lib_names, sorted,
                 diagnostic, results, name, parsed>>

\* run_bindgen, lines 163-168
ScanLlvmLibdir ==
  /\ pc = "scan_llvm"
  /\ out' = Append(out, Directive(163, "rustc-link-search", LlvmLibDir))
  /\ \E entries \in LlvmLibDirChoices :
       /\ llvm_libdir_entries' = entries
       /\ IF scan_panics(entries, UmbrellaPrefix)
          THEN /\ pc' = "panicked"
               /\ diagnostic' = Panic(238, LlvmLibDir, UmbrellaPrefix)
               /\ UNCHANGED mlir_lib_names
          ELSE /\ pc' = "toposort"
               /\ mlir_lib_names' = collect_mlir_lib_names(lib_paths(entries, UmbrellaPrefix))
               /\ UNCHANGED diagnostic
  /\ UNCHANGED <<include_entries, bin_entries, lib_dir_entries, manifest, static_lib_names,
                 mlir_deps_graph, sorted, results, name, parsed>>

\* run_bindgen, line 169: the call of toposort
CallToposort ==
  /\ pc = "toposort"
  /\ \E seeds \in seed_orders(mlir_deps_graph) :
       LET r == toposort(mlir_deps_graph, seeds)
       IN  /\ results' = Append(results, r)
           /\ IF r.panicked
              THEN /\ pc' = "panicked"
                   /\ diagnostic' = Panic(317, <<>>, r.sorted[Len(r.sorted)])
                   /\ UNCHANGED sorted
              ELSE /\ pc' = "emit_manifest"
                   /\ sorted' = r.sorted
                   /\ UNCHANGED diagnostic
  /\ UNCHANGED <<include_entries, bin_entries, lib_dir_entries, llvm_libdir_entries,
                 manifest, static_lib_names, mlir_deps_graph, mlir_lib_names, out,
                 name, parsed>>

\* run_bindgen, lines 169-173
EmitManifest ==
  /\ pc = "emit_manifest"
  /\ out' = out \o manifest_directives(sorted, mlir_lib_names)
  /\ pc' = "libnames"
  /\ UNCHANGED <<include_entries, bin_entries, lib_dir_entries, llvm_libdir_entries,
                 manifest, static_lib_names, mlir_deps_graph, mlir_lib_names, sorted,
                 diagnostic, results, name, parsed>>

\* run_bindgen, lines 175-179
EmitLibnames ==
  /\ pc = "libnames"
  /\ \E libnames \in LlvmLibnames : out' = out \o libnames_directives(libnames)
  /\ pc' = "system_libs"
  /\ UNCHANGED <<include_entries, bin_entries, lib_dir_entries, llvm_libdir_entries,
                 manifest, static_lib_names, mlir_deps_graph, mlir_lib_names, sorted,
                 diagnostic, results, name, parsed>>

\* run_bindgen, lines 181-203
EmitSystemLibs ==
  /\ pc = "system_libs"
  /\ \E flags \in LlvmSystemLibs : out' = out \o system_libs_directives(flags)
  /\ pc' = "libcpp"
  /\ UNCHANGED <<include_entries, bin_entries, lib_dir_entries, llvm_libdir_entries,
                 manifest, static_lib_names, mlir_deps_graph, mlir_lib_names, sorted,
                 diagnostic, results, name, parsed>>

\* run_bindgen, lines 205-220: the C++ runtime's directive, then the bindings
\* are generated and written
Bindgen ==
  /\ pc = "libcpp"
  /\ \E target \in Targets : out' = out \o libcpp_directives(target)
  /\ pc' = "done"
  /\ UNCHANGED <<include_entries, bin_entries, lib_dir_entries, llvm_libdir_entries,
                 manifest, static_lib_names, mlir_deps_graph, mlir_lib_names, sorted,
                 diagnostic, results, name, parsed>>

\* llvm_config returns Err at one of its calls, and run_bindgen returns it
LlvmConfigFails ==
  /\ pc \in {"version", "scan_llvm", "libnames", "system_libs", "libcpp"}
  /\ pc' = "error"
  /\ diagnostic' = Err(273, <<pc>>)
  /\ UNCHANGED <<include_entries, bin_entries, lib_dir_entries, llvm_libdir_entries,
                 manifest, static_lib_names, mlir_deps_graph, mlir_lib_names, sorted,
                 out, results, name, parsed>>

Next ==
  \/ BuildCheckDirs
  \/ BuildScanGroups
  \/ BuildLoadManifest
  \/ RunPrint
  \/ CheckVersion
  \/ EmitManual
  \/ ScanLlvmLibdir
  \/ CallToposort
  \/ EmitManifest
  \/ EmitLibnames
  \/ EmitSystemLibs
  \/ Bindgen
  \/ LlvmConfigFails

Spec == Init /\ [][Next]_vars

---------------------------------------------------------------------------
(* The manifest loader and toposort alone, on every small manifest *)

TopoNodes == {<<"A">>, <<"B">>, <<"C">>}

TopoLines == SeqsUpTo(TopoNodes, TopoMaxFields) \ {<<>>}

InitTopo ==
  /\ pc = "topo_load"
  /\ include_entries = Unread
  /\ bin_entries = Unread
  /\ lib_dir_entries = Unread
  /\ llvm_libdir_entries = Unread
  /\ manifest \in SeqsUpTo(TopoLines, TopoMaxLines)
  /\ static_lib_names = <<>>
  /\ mlir_deps_graph = EmptyGraph
  /\ mlir_lib_names = {}
  /\ sorted = <<>>
  /\ out = <<>>
  /\ diagnostic = NoDiagnostic
  /\ results = <<>>
  /\ name = <<>>
  /\ parsed = None

\* lines 118-129 on the drawn manifest
TopoLoad ==
  /\ pc = "topo_load"
  /\ mlir_deps_graph' = load_manifest(EmptyGraph, manifest)
  /\ pc' = "topo"
  /\ UNCHANGED <<include_entries, bin_entries, lib_dir_entries, llvm_libdir_entries,
                 manifest, static_lib_names, mlir_lib_names, sorted, out, diagnostic,
                 results, name, parsed>>

\* one more call of toposort on the same graph
TopoRun ==
  /\ pc = "topo"
  /\ Len(results) < NumRuns
  /\ \E seeds \in seed_orders(mlir_deps_graph) :
       results' = Append(results, toposort(mlir_deps_graph, seeds))
  /\ UNCHANGED <<pc, include_entries, bin_entries, lib_dir_entries, llvm_libdir_entries,
                 manifest, static_lib_names, mlir_deps_graph, mlir_lib_names, sorted,
                 out, diagnostic, name, parsed>>

NextTopo == TopoLoad \/ TopoRun

SpecTopo == InitTopo /\ [][NextTopo]_vars

---------------------------------------------------------------------------
(* parse_archive_name alone, on every short name *)

Chars == {"l", "i", "b", ".", "a", "x"}

InitParse ==
  /\ pc = "parse"
  /\ include_entries = Unread
  /\ bin_entries = Unread
  /\ lib_dir_entries = Unread
  /\ llvm_libdir_entries = Unread
  /\ manifest = <<>>
  /\ static_lib_names = <<>>
  /\ mlir_deps_graph = EmptyGraph
  /\ mlir_lib_names = {}
  /\ sorted = <<>>
  /\ out = <<>>
  /\ diagnostic = NoDiagnostic
  /\ results = <<>>
  /\ name \in SeqsUpTo(Chars, MaxNameLen)
               \cup {format_archive_name(id) : id \in SeqsUpTo(Chars, MaxIdLen)}
  /\ parsed = None

ParseArchiveName ==
  /\ pc = "parse"
  /\ parsed' = parse_archive_name(name)
  /\ pc' = "parsed"
  /\ UNCHANGED <<include_entries, bin_entries, lib_dir_entries, llvm_libdir_entries,
                 manifest, static_lib_names, mlir_deps_graph, mlir_lib_names, sorted,
                 out, diagnostic, results, name>>

NextParse == ParseArchiveName

SpecParse == InitParse /\ [][NextParse]_vars

---------------------------------------------------------------------------
(* What the properties are stated with *)

HasPrefix(s, p) == Len(p) <= Len(s) /\ SubSeq(s, 1, Len(p)) = p

\* the id of a file named lib<id>.a
IdOf(f) == SubSeq(f, 4, Len(f) - 2)
IsArchive(f) == Len(f) >= 5 /\ f = <<"l", "i", "b">> \o IdOf(f) \o <<".", "a">>

NoDup(seq) == \A i, j \in DOMAIN seq : seq[i] = seq[j] => i = j

IndexOf(seq, x) == CHOOSE i \in DOMAIN seq : seq[i] = x

\* the subsequence of seq of the elements in S
Restrict(seq, S) ==
  LET Keep(x) == x \in S
  IN  SelectSeq(seq, Keep)

Count(seq, x) == Cardinality({i \in DOMAIN seq : seq[i] = x})

\* the values printed by the println! of one source line, in order
ArgsAt(line) ==
  LET At(d) == d.line = line
      sel == SelectSeq(out, At)
  IN  [i \in DOMAIN sel |-> sel[i].arg]

\* the static link directives of the loop over static_lib_names, and of the
\* loop over toposort's result
ManualPart == ArgsAt(159)
ManifestPart == ArgsAt(171)

StaticArgs ==
  LET Static(d) == d.kind = "rustc-link-lib=static"
      sel == SelectSeq(out, Static)
  IN  [i \in DOMAIN sel |-> sel[i].arg]

\* the pinned order of the archive groups, as build.rs states it
PinnedOrder ==
  << <<"l", "i", "b", "M", "L", "I", "R", "C", "A", "P", "I", "Q", "w", "e", "r", "t", "y">>,
     <<"l", "i", "b", "M", "L", "I", "R", "Q", "w", "e", "r", "t", "y">>,
     <<"l", "i", "b", "q", "w", "u", "t", "i", "l">>,
     <<"l", "i", "b", "t", "w", "e", "e", "d", "l", "e", "d", "u", "m">>,
     <<"l", "i", "b", "M", "L", "I", "R", "C", "A", "P", "I", "U", "t", "i", "l", "s">>,
     <<"l", "i", "b", "M", "L", "I", "R", "C", "A", "P", "I", "Q", "C", "i", "r", "c">>,
     <<"l", "i", "b", "M", "L", "I", "R", "C", "A", "P", "I", "C", "C", "i", "r", "c">>,
     <<"l", "i", "b", "M", "L", "I", "R", "Q", "C", "i", "r", "c">>,
     <<"l", "i", "b", "M", "L", "I", "R", "C", "C", "i", "r", "c">> >>

\* the pinned group an archive file belongs to, 0 when it belongs to none
GroupOf(f) ==
  LET groups == {k \in DOMAIN PinnedOrder : HasPrefix(f, PinnedOrder[k])}
  IN  IF groups = {} THEN 0 ELSE CHOOSE k \in groups : TRUE

\* the ids of the archives of lib_dir that belong to a pinned group
ManualIds == {IdOf(f) : f \in {g \in lib_dir_entries : IsArchive(g) /\ GroupOf(g) # 0}}

\* the ids of the libMLIR archives of llvm-config's libdir
PresentIds ==
  {IdOf(f) : f \in {g \in llvm_libdir_entries :
                      IsArchive(g) /\ HasPrefix(g, <<"l", "i", "b", "M", "L", "I", "R">>)}}

\* the manual part lists the archives of the pinned groups once each, group
\* after group in the pinned order
ManualPartPinned ==
  /\ NoDup(ManualPart)
  /\ Range(ManualPart) = ManualIds
  /\ \A i \in 1..(Len(ManualPart) - 1) :
       GroupOf(<<"l", "i", "b">> \o ManualPart[i] \o <<".", "a">>)
         <= GroupOf(<<"l", "i", "b">> \o ManualPart[i + 1] \o <<".", "a">>)

AfterManifestLoop == {"libnames", "system_libs", "libcpp", "done"}
AfterLlvmScan == {"toposort", "emit_manifest"} \cup AfterManifestLoop

Succ(graph, v) == IF v \in DOMAIN graph THEN Range(graph[v]) ELSE {}

RECURSIVE Closure(_, _)
Closure(graph, S) ==
  LET T == S \cup UNION {Succ(graph, v) : v \in S}
  IN  IF T = S THEN S ELSE Closure(graph, T)

\* the vertices reached from v by one edge or more
Descendants(graph, v) == Closure(graph, Succ(graph, v))
OnCycle(graph, v) == v \in Descendants(graph, v)
Acyclic(graph) == \A v \in Vertices(graph) : ~ OnCycle(graph, v)
BehindCycle(graph, v) ==
  \E c \in Vertices(graph) : OnCycle(graph, c) /\ (v = c \/ v \in Descendants(graph, c))

\* seq lists every vertex of the graph once, each edge's source before its target
IsTopologicalOrder(graph, seq) ==
  /\ Len(seq) = Cardinality(Vertices(graph))
  /\ Range(seq) = Vertices(graph)
  /\ \A a \in DOMAIN graph : \A b \in Range(graph[a]) :
       IndexOf(seq, a) < IndexOf(seq, b)

---------------------------------------------------------------------------
(* toposort: C1, C5, C6 *)

\* C1: on every acyclic graph the loader builds, vertices that are only
\* successors included, toposort returns normally, and what it returns lists
\* every vertex once with each edge's source at a smaller index than its target.
C1_AcyclicIsSorted ==
  \A i \in DOMAIN results :
    Acyclic(mlir_deps_graph) =>
      /\ ~ results[i].panicked
      /\ IsTopologicalOrder(mlir_deps_graph, results[i].sorted)

\* the same for the graphs all of whose vertices are first fields of a line
C1_AcyclicAllKeysIsSorted ==
  \A i \in DOMAIN results :
    (Acyclic(mlir_deps_graph) /\ Vertices(mlir_deps_graph) = DOMAIN mlir_deps_graph) =>
      /\ ~ results[i].panicked
      /\ IsTopologicalOrder(mlir_deps_graph, results[i].sorted)

\* the manifest "A\tB\tC", "B\tC" has been loaded and sorted
C1_ExampleSorted ==
  /\ manifest = << << <<"A">>, <<"B">>, <<"C">> >>, << <<"B">>, <<"C">> >> >>
  /\ results # <<>>

\* C5: two runs of toposort on the same graph return the same sequence.
C5_SameOrderEveryRun ==
  \A i, j \in DOMAIN results :
    (~ results[i].panicked /\ ~ results[j].panicked) =>
      results[i].sorted = results[j].sorted

\* C6: on a graph with a cycle toposort returns normally; no vertex on or
\* behind a cycle is ever enqueued or returned, and every other vertex is
\* returned.
C6_CyclePolicy ==
  \A i \in DOMAIN results :
    ~ Acyclic(mlir_deps_graph) =>
      /\ ~ results[i].panicked
      /\ \A v \in Vertices(mlir_deps_graph) :
           IF BehindCycle(mlir_deps_graph, v)
           THEN v \notin Range(results[i].enqueued) /\ v \notin Range(results[i].sorted)
           ELSE v \in Range(results[i].sorted)

\* the same for the runs in which graph[libname] does not panic
C6_CyclePolicyWhenReturned ==
  \A i \in DOMAIN results :
    (~ Acyclic(mlir_deps_graph) /\ ~ results[i].panicked) =>
      \A v \in Vertices(mlir_deps_graph) :
        IF BehindCycle(mlir_deps_graph, v)
        THEN v \notin Range(results[i].enqueued) /\ v \notin Range(results[i].sorted)
        ELSE v \in Range(results[i].sorted)

\* the cycle X -> Y, Y -> Z, Z -> X alone has been sorted to the empty sequence
C6_ThreeCycleSortedEmpty ==
  /\ manifest = << << <<"A">>, <<"B">> >>, << <<"B">>, <<"C">> >>, << <<"C">>, <<"A">> >> >>
  /\ results # <<>>
  /\ results[1].sorted = <<>>
  /\ ~ results[1].panicked

---------------------------------------------------------------------------
(* The link directives: C2, C3, C8, C9 *)

\* C2 as claimed: in a finished build the static link directives are the
\* manual part, in the pinned order, and then toposort's order of the manifest
\* fields, each field an archive file name that is emitted as its id when
\* that archive is in the scanned inventory.
C2_ManifestFieldsAreFileNames ==
  pc = "done" =>
    /\ StaticArgs = ManualPart \o ManifestPart
    /\ ManualPartPinned
    /\ LET Resolve(field) ==
             IF IsArchive(field) /\ field \in llvm_libdir_entries
             THEN << IdOf(field) >> ELSE <<>>
       IN  ManifestPart = FlatMap(Resolve, sorted)

\* C2: in a finished build the static link directives are the manual part,
\* in the pinned order, and then toposort's order of the manifest fields
\* restricted to the fields that are, as they stand, the id of a libMLIR
\* archive of llvm-config's libdir.
C2_LinkPlan ==
  pc = "done" =>
    /\ StaticArgs = ManualPart \o ManifestPart
    /\ ManualPartPinned
    /\ NoDup(sorted)
    /\ \A a \in DOMAIN mlir_deps_graph : \A b \in Range(mlir_deps_graph[a]) :
         (a \in Range(sorted) /\ b \in Range(sorted)) =>
            IndexOf(sorted, a) < IndexOf(sorted, b)
    /\ ManifestPart = Restrict(sorted, PresentIds)

\* a build has finished whose manifest names libMLIRA.a and MLIRQwerty, with
\* libMLIRA.a and libMLIRQwerty.a installed: only the field MLIRQwerty has
\* become a directive
C2_FileNameFieldDropped ==
  /\ pc = "done"
  /\ manifest = << <<libMLIRA_a, <<>> >>, <<MLIRQwerty>> >>
  /\ {libMLIRA_a, libMLIRQwerty_a} \subseteq llvm_libdir_entries
  /\ Len(ManualPart) = 9
  /\ ManifestPart = << MLIRQwerty >>

\* C3: a manifest field that is not the id of an archive of the inventory is
\* never printed by the loop over toposort's result, and once the loop is
\* over what it printed is the subsequence of toposort's result of the ids
\* of the inventory; the build goes on.
C3_FilteredSubsequence ==
  /\ Range(ManifestPart) \subseteq PresentIds
  /\ pc \in AfterManifestLoop => ManifestPart = Restrict(sorted, PresentIds)
  /\ pc = "emit_manifest" => diagnostic = NoDiagnostic /\ ManifestPart = <<>>

\* a build has finished in which toposort returned a field the inventory
\* lacks between two it has
C3_AbsentFieldDropped ==
  /\ pc = "done"
  /\ diagnostic = NoDiagnostic
  /\ sorted = << MLIRA, libMLIRA_a, MLIRQwerty >>
  /\ ManifestPart = << MLIRA, MLIRQwerty >>

C9_EveryVertexTwice ==
  pc = "done" =>
    \A id \in (ManualIds \cap Vertices(mlir_deps_graph)) \cap PresentIds :
      Count(ManualPart, id) = 1 /\ Count(ManifestPart, id) = 1

\* C9: in a finished build an id of the manual part that toposort returned
\* and that is an id of the inventory is printed twice, once in the manual
\* part and once in the manifest part; a vertex toposort left out is printed
\* in the manual part alone.
C9_NoDeduplication ==
  pc = "done" =>
    \A id \in (ManualIds \cap Vertices(mlir_deps_graph)) \cap PresentIds :
      /\ Count(ManualPart, id) = 1
      /\ Count(ManifestPart, id) = (IF id \in Range(sorted) THEN 1 ELSE 0)
      /\ Count(StaticArgs, id) = (IF id \in Range(sorted) THEN 2 ELSE 1)

\* a build has finished that printed MLIRQwerty in both parts
C9_PrintedTwice ==
  /\ pc = "done"
  /\ MLIRQwerty \in (ManualIds \cap Range(sorted)) \cap PresentIds
  /\ Count(StaticArgs, MLIRQwerty) = 2

---------------------------------------------------------------------------
(* The scanner and the directories: C4, C7 *)

\* C4 as claimed: the scanner aborts the build only for a manual-group
\* prefix; for the prefix libMLIR in llvm-config's libdir it returns nothing
\* and the build goes on.
C4_UmbrellaScanMayBeEmpty ==
  (diagnostic.kind = "panic" /\ diagnostic.line = 238) =>
    /\ diagnostic.dir = LibDir
    /\ \E k \in DOMAIN PinnedOrder : diagnostic.text = PinnedOrder[k]

\* C4: the scanner aborts the build for every prefix that matches no file:
\* for the first manual-group prefix without a file in lib_dir, and for
\* libMLIR when llvm-config's libdir has no such file; then no manifest
\* directive is printed. A build that goes past a scan has found a file for
\* each prefix scanned.
C4_EmptyScanAborts ==
  LET Matches(entries, prefix) == {f \in entries : HasPrefix(f, prefix)}
      Umbrella == <<"l", "i", "b", "M", "L", "I", "R">>
  IN  /\ (diagnostic.kind = "panic" /\ diagnostic.line = 238 /\ diagnostic.dir = LibDir) =>
           \E k \in DOMAIN PinnedOrder :
             /\ diagnostic.text = PinnedOrder[k]
             /\ Matches(lib_dir_entries, PinnedOrder[k]) = {}
             /\ \A j \in 1..(k - 1) : Matches(lib_dir_entries, PinnedOrder[j]) # {}
      /\ (diagnostic.kind = "panic" /\ diagnostic.line = 238 /\ diagnostic.dir = LlvmLibDir) =>
           /\ pc = "panicked"
           /\ diagnostic.text = Umbrella
           /\ Matches(llvm_libdir_entries, Umbrella) = {}
           /\ ManifestPart = <<>>
      /\ pc \in {"load", "run", "version", "emit_manual", "scan_llvm"} \cup AfterLlvmScan =>
           \A k \in DOMAIN PinnedOrder : Matches(lib_dir_entries, PinnedOrder[k]) # {}
      /\ pc \in AfterLlvmScan => Matches(llvm_libdir_entries, Umbrella) # {}

\* the build has aborted at the scan of a libdir that holds no libMLIR file
C4_UmbrellaScanAborted ==
  /\ pc = "panicked"
  /\ llvm_libdir_entries = {libLLVMCore_a}
  /\ diagnostic = Panic(238, LlvmLibDir, UmbrellaPrefix)
  /\ Len(ManualPart) = 9

\* C7: when the include or the bin directory is empty the build aborts
\* before it prints anything, and the message names the directory found empty.
C7_EmptyDirNamed ==
  /\ (pc # "start" /\ (include_entries = {} \/ bin_entries = {})) =>
        pc = "panicked" /\ diagnostic.line = 78 /\ out = <<>>
  /\ (diagnostic.kind = "panic" /\ diagnostic.line = 78) =>
        diagnostic.dir = (IF include_entries = {} THEN IncludeDir ELSE BinDir)

---------------------------------------------------------------------------
(* parse_archive_name: C10 *)

\* C10: parse_archive_name returns one id or none for every name; none for
\* a name without the prefix "lib" or without the suffix ".a"; and the id,
\* the empty id included, for "lib" + id + ".a".
C10_ParseRoundTrip ==
  pc = "parsed" =>
    LET n == Len(name)
        lib == n >= 3 /\ name[1] = "l" /\ name[2] = "i" /\ name[3] = "b"
        dotA == n >= 2 /\ name[n - 1] = "." /\ name[n] = "a"
    IN  /\ Len(parsed) <= 1
        /\ (~ lib \/ ~ dotA) => parsed = None
        /\ (lib /\ dotA) => parsed = Some(SubSeq(name, 4, n - 2))
        /\ \A id \in SeqsUpTo(Chars, MaxIdLen) :
             name = <<"l", "i", "b">> \o id \o <<".", "a">> => parsed = Some(id)

\* "lib.a" has been parsed to the empty id
C10_EmptyIdParsed ==
  /\ pc = "parsed"
  /\ name = <<"l", "i", "b", ".", "a">>
  /\ parsed = Some(<<>>)

====
